---- MODULE Spec2Model ----
(***************************************************************************)
(* Model of the M1 piano sample extraction scripts                         *)
(*   platform/nts-1_mkii/m1_piano_osc/extract_samples_simple.py            *)
(*   platform/nts-1_mkii/m1_piano_osc/extract_samples.py                   *)
(* Python lists are sequences (index i of the code is index i+1 here).     *)
(* Python floats are IEEE-754 doubles: a double is modelled as a record    *)
(* [m, e] with value m * 2^e, where m is a 53-bit significand held as five *)
(* little-endian 16-bit limbs (or all zero), and every arithmetic          *)
(* operation rounds to nearest, ties to even, as the hardware does.        *)
(***************************************************************************)
EXTENDS Integers, Sequences, FiniteSets, TLC

VARIABLES
  pc,           \* position of the call or of main()
  samples,      \* the sample buffer
  args,         \* the remaining arguments of the function under study
  ret,          \* what the function returned
  ret_np,       \* what the numpy variant returned
  wav,          \* the input WAV file: channels, width, rate, raw frames
  rate,         \* main: rate returned by extract_attack_and_loop
  attack,       \* main: attack samples
  loop_cycle,   \* main: loop cycle samples
  attack_48k,   \* main: resampled attack
  loop_48k,     \* main: resampled loop cycle
  output_file,  \* samples_data.h: whether it was opened, and its text
  error         \* the exception that left main(), <<>> if none

vars == <<pc, samples, args, ret, ret_np, wav, rate, attack, loop_cycle,
          attack_48k, loop_48k, output_file, error>>

mainVars == <<wav, rate, attack, loop_cycle, attack_48k, loop_48k,
              output_file, error>>

None == "None"

NoError == <<>>

NotWritten == [opened |-> FALSE, text |-> <<>>]

----------------------------------------------------------------------------
(* Multi-limb naturals: the significand arithmetic behind float / and *.   *)

Base == 65536

Limbs(n) == <<n % Base, n \div Base, 0, 0, 0>>

ZeroL == <<0, 0, 0, 0, 0>>

\* 2^52 and 2^53: a normalised significand m satisfies P52 <= m < P53.
P52 == <<0, 0, 0, 16, 0>>

P53 == <<0, 0, 0, 32, 0>>

Odd(x) == x[1] % 2 = 1

\* x * k for a small natural k (k < 2^14), carries propagated upwards.
MulSmall(x, k) ==
  LET t1 == x[1] * k
      t2 == x[2] * k + t1 \div Base
      t3 == x[3] * k + t2 \div Base
      t4 == x[4] * k + t3 \div Base
      t5 == x[5] * k + t4 \div Base
  IN <<t1 % Base, t2 % Base, t3 % Base, t4 % Base, t5 % Base>>

Dbl(x) == MulSmall(x, 2)

\* floor(x / 2)
Half(x) ==
  <<(x[1] + Base * (x[2] % 2)) \div 2,
    (x[2] + Base * (x[3] % 2)) \div 2,
    (x[3] + Base * (x[4] % 2)) \div 2,
    (x[4] + Base * (x[5] % 2)) \div 2,
    x[5] \div 2>>

\* x >= y
Geq(x, y) ==
  IF x[5] # y[5] THEN x[5] > y[5]
  ELSE IF x[4] # y[4] THEN x[4] > y[4]
  ELSE IF x[3] # y[3] THEN x[3] > y[3]
  ELSE IF x[2] # y[2] THEN x[2] > y[2]
  ELSE x[1] >= y[1]

\* x - y for x >= y, borrows propagated upwards.
Sub(x, y) ==
  LET d1 == x[1] - y[1]
      b1 == IF d1 < 0 THEN 1 ELSE 0
      d2 == x[2] - y[2] - b1
      b2 == IF d2 < 0 THEN 1 ELSE 0
      d3 == x[3] - y[3] - b2
      b3 == IF d3 < 0 THEN 1 ELSE 0
      d4 == x[4] - y[4] - b3
      b4 == IF d4 < 0 THEN 1 ELSE 0
      d5 == x[5] - y[5] - b4
  IN <<d1 + b1 * Base, d2 + b2 * Base, d3 + b3 * Base, d4 + b4 * Base, d5>>

\* x + k for a small natural k
AddSmall(x, k) ==
  LET t1 == x[1] + k
      t2 == x[2] + t1 \div Base
      t3 == x[3] + t2 \div Base
      t4 == x[4] + t3 \div Base
      t5 == x[5] + t4 \div Base
  IN <<t1 % Base, t2 % Base, t3 % Base, t4 % Base, t5 % Base>>

\* floor(x / 2^s)
RECURSIVE ShiftRight(_, _)
ShiftRight(x, s) ==
  IF s = 0 THEN x
  ELSE IF s >= 16 THEN ShiftRight(<<x[2], x[3], x[4], x[5], 0>>, s - 16)
  ELSE ShiftRight(Half(x), s - 1)

----------------------------------------------------------------------------
(* IEEE-754 double arithmetic, round to nearest, ties to even.             *)

FZero == [m |-> ZeroL, e |-> 0]

\* Round the exact value (q + fraction) * 2^e to 53 bits, where q >= 2^52,
\* rnd is the bit just below q and sticky tells whether anything lies below.
RECURSIVE RoundTo53(_, _, _, _)
RoundTo53(q, e, rnd, sticky) ==
  IF Geq(q, P53)
    THEN RoundTo53(Half(q), e + 1, Odd(q), sticky \/ rnd)
    ELSE LET up == rnd /\ (sticky \/ Odd(q))
             q2 == IF up THEN AddSmall(q, 1) ELSE q
         IN IF q2 = P53 THEN [m |-> P52, e |-> e + 1] ELSE [m |-> q2, e |-> e]

\* Exact scaling of a non-zero natural up to a 53-bit significand.
RECURSIVE Normalise(_, _)
Normalise(q, e) ==
  IF Geq(q, P52) THEN [m |-> q, e |-> e] ELSE Normalise(Dbl(q), e - 1)

\* float(n) for an int 0 <= n < 2^31 (always exact).
FromInt(n) == IF n = 0 THEN FZero ELSE Normalise(Limbs(n), 0)

\* 2^54: the quotient of two significands is developed to 55 bits.
P54 == <<0, 0, 0, 64, 0>>

\* Binary long division of rem (< den) by den, one quotient bit per step,
\* until the quotient q has 55 bits; inexact tells whether a remainder is
\* left below the last bit.
RECURSIVE LongDiv(_, _, _)
LongDiv(rem, den, q) ==
  IF Geq(q, P54) THEN [q |-> q, inexact |-> rem # ZeroL]
  ELSE LET r2 == Dbl(rem)
       IN IF Geq(r2, den) THEN LongDiv(Sub(r2, den), den, AddSmall(Dbl(q), 1))
                          ELSE LongDiv(r2, den, Dbl(q))

\* a / b for doubles a >= 0, b > 0: the 55-bit quotient of the significands
\* (scaled by 2^54 when a.m >= b.m, by 2^55 otherwise) rounded to 53 bits.
FDiv(a, b) ==
  IF a.m = ZeroL THEN FZero
  ELSE LET big == Geq(a.m, b.m)
           k == IF big THEN 54 ELSE 55
           d == IF big THEN LongDiv(Sub(a.m, b.m), b.m, Limbs(1))
                       ELSE LongDiv(a.m, b.m, ZeroL)
       IN RoundTo53(d.q, a.e - b.e - k, FALSE, d.inexact)

\* float(i) * f for an int 0 <= i < 2^14 and a double f >= 0: the exact
\* product rounded to 53 bits.
FMulInt(i, f) ==
  IF i = 0 \/ f.m = ZeroL THEN FZero
  ELSE RoundTo53(MulSmall(f.m, i), f.e, FALSE, FALSE)

\* int(f) for a double 0 <= f < 2^31: truncation towards zero.
Trunc(f) ==
  IF f.m = ZeroL \/ -f.e >= 53 THEN 0
  ELSE LET x == ShiftRight(f.m, -f.e) IN x[1] + Base * x[2]

----------------------------------------------------------------------------
(* Python built-ins used by the scripts.                                   *)

Min(a, b) == IF a < b THEN a ELSE b

Abs(x) == IF x < 0 THEN -x ELSE x

\* s[a:b] for offsets a, b >= 0: both ends are clamped to len(s), and the
\* slice is empty when the clamped start is not below the clamped end.
PySlice(s, a, b) == SubSeq(s, Min(a, Len(s)) + 1, Min(b, Len(s)))

\* s[::2]
EveryOther(s) == [k \in 1..((Len(s) + 1) \div 2) |-> s[2 * k - 1]]

\* float('inf'): the differences it is compared with are >= 0, so -1 is
\* free to stand for it, and diff < inf is spelled out in Closer.
Inf == -1

\* A plausible slip: <= for <, so that a later equally close pair wins.
CloserOrEqual(diff, best_diff) == best_diff = Inf \/ diff <= best_diff

\* diff < best_diff
Closer(diff, best_diff) == best_diff = Inf \/ diff < best_diff

----------------------------------------------------------------------------
(* extract_samples_simple.py                                               *)

\* A plausible slip: every rising crossing is taken (the distance test lost).
FarEnoughAlways(i, last_crossing, min_distance) == i - last_crossing >= 0

\* i - last_crossing >= min_distance
FarEnough(i, last_crossing, min_distance) == i - last_crossing >= min_distance

\* The body of the for loop over i in range(start_idx, len(samples) - 1),
\* with the crossings accepted so far and the last accepted crossing.
RECURSIVE ScanCrossings(_, _, _, _, _, _)
ScanCrossings(xs, i, count, min_distance, crossings, last_crossing) ==
  IF i >= Len(xs) - 1 THEN crossings
  ELSE LET accept == /\ xs[i + 1] <= 0
                     /\ xs[i + 2] > 0
                     /\ FarEnough(i, last_crossing, min_distance)
           crossings2 == IF accept THEN Append(crossings, i) ELSE crossings
           last2 == IF accept THEN i ELSE last_crossing
       IN IF Len(crossings2) >= count THEN crossings2
          ELSE ScanCrossings(xs, i + 1, count, min_distance,
                             crossings2, last2)

find_zero_crossings(xs, start_idx, count, min_distance) ==
  ScanCrossings(xs, start_idx, count, min_distance, <<>>, -min_distance)

\* 261.63 (0x1.05a147ae147aep+8), the default base_freq
C4 == [m |-> <<18350, 31457, 23060, 16, 0>>, e |-> -44]

\* 0.8 (0x1.999999999999ap-1)
F08 == [m |-> <<39322, 39321, 39321, 25, 0>>, e |-> -53]

MsPerSecond == 1000

MaxCrossings == 10

\* 1000.0
F1000 == FromInt(MsPerSecond)

\* int(ms * sample_rate / 1000)
MsToSamples(ms, sample_rate) == Trunc(FDiv(FromInt(ms * sample_rate), F1000))

\* int(sample_rate / base_freq)
ExpectedCycleLen(sample_rate, base_freq) ==
  Trunc(FDiv(FromInt(sample_rate), base_freq))

\* int(expected_cycle_len * 0.8)
MinDist(expected_cycle_len) == Trunc(FMulInt(expected_cycle_len, F08))

\* The scan for the crossing pair closest to the expected length: the loop
\* over i in range(len(crossings) - 1), returning best_idx.
RECURSIVE BestIdx(_, _, _, _, _)
BestIdx(crossings, expected_cycle_len, i, best_idx, best_diff) ==
  IF i >= Len(crossings) - 1 THEN best_idx
  ELSE LET cycle_len == crossings[i + 2] - crossings[i + 1]
           diff == Abs(cycle_len - expected_cycle_len)
       IN IF Closer(diff, best_diff)
            THEN BestIdx(crossings, expected_cycle_len, i + 1, i, diff)
            ELSE BestIdx(crossings, expected_cycle_len, i + 1, best_idx, best_diff)

\* A plausible slip: the end of the fallback slice is not offset by the start.
FallbackFromZero(xs, start_sample, expected_cycle_len) ==
  PySlice(xs, start_sample, expected_cycle_len)

\* samples[start_sample:start_sample + expected_cycle_len]
Fallback(xs, start_sample, expected_cycle_len) ==
  PySlice(xs, start_sample, start_sample + expected_cycle_len)

\* The locals computed before the search: start_sample, expected_cycle_len
\* and min_dist.
LoopParams(start_ms, sample_rate, base_freq) ==
  LET expected_cycle_len == ExpectedCycleLen(sample_rate, base_freq)
  IN [start_sample |-> MsToSamples(start_ms, sample_rate),
      expected_cycle_len |-> expected_cycle_len,
      min_dist |-> MinDist(expected_cycle_len)]

\* The rest of find_best_loop_cycle: the crossings, the fallback and the
\* selection. The result carries the crossings next to the returned cycle.
SelectCycle(xs, p) ==
  LET crossings == find_zero_crossings(xs, p.start_sample, MaxCrossings, p.min_dist)
  IN IF Len(crossings) < 2
       THEN [crossings |-> crossings,
             cycle |-> Fallback(xs, p.start_sample, p.expected_cycle_len)]
       ELSE LET best_idx == BestIdx(crossings, p.expected_cycle_len, 0, 0, Inf)
                cycle_start == crossings[best_idx + 1]
                cycle_end == crossings[best_idx + 2]
            IN [crossings |-> crossings,
                cycle |-> PySlice(xs, cycle_start, cycle_end)]

find_best_loop_cycle(xs, start_ms, sample_rate, base_freq) ==
  SelectCycle(xs, LoopParams(start_ms, sample_rate, base_freq)).cycle

\* A plausible slip: the count taken in milliseconds, the rate forgotten.
ExtractAttackMs(xs, attack_ms, sr) == PySlice(xs, 0, attack_ms)

\* attack_samples_count = int(attack_ms * rate / 1000); samples[:count]
ExtractAttack(xs, attack_ms, sr) ==
  PySlice(xs, 0, MsToSamples(attack_ms, sr))

\* One output sample of the interpolation loop: pos = i * ratio,
\* idx = int(pos), and the operands of val. A read of samples[k] with
\* k >= len(samples) raises IndexError.
Read(xs, k) == IF k < Len(xs) THEN xs[k + 1] ELSE "IndexError"

\* A plausible slip: the bounds test is on idx, not on idx + 1.
InterpolateOffByOne(xs, ratio, i) ==
  LET pos == FMulInt(i, ratio)
      idx == Trunc(pos)
  IN IF idx < Len(xs)
       THEN [kind |-> "interp", pos |-> pos, idx |-> idx,
             lo |-> Read(xs, idx), hi |-> Read(xs, idx + 1)]
       ELSE [kind |-> "clamp", pos |-> pos, idx |-> idx,
             lo |-> Read(xs, idx)]

Interpolate(xs, ratio, i) ==
  LET pos == FMulInt(i, ratio)
      idx == Trunc(pos)
  IN IF idx + 1 < Len(xs)
       THEN [kind |-> "interp", pos |-> pos, idx |-> idx,
             lo |-> Read(xs, idx), hi |-> Read(xs, idx + 1)]
       ELSE [kind |-> "clamp", pos |-> pos, idx |-> idx,
             lo |-> Read(xs, idx)]

\* A plausible slip: the length multiplied by the ratio, not divided.
NewLenTimes(n, ratio) == Trunc(FMulInt(n, ratio))

\* new_len = int(len(samples) / ratio)
NewLen(n, ratio) == Trunc(FDiv(FromInt(n), ratio))

\* The interpolation loop, for ratio = original_rate / target_rate.
Resample(xs, ratio) ==
  [i \in 1..NewLen(Len(xs), ratio) |-> Interpolate(xs, ratio, i - 1)]

\* A plausible slip: no identity shortcut, every call interpolates.
downsample_always(xs, original_rate, target_rate) ==
  [out |-> Resample(xs, FDiv(FromInt(original_rate), FromInt(target_rate))),
   interpolated |-> TRUE]

\* The result carries the returned list and whether the interpolation loop
\* was entered (the identity shortcut returns the argument itself).
downsample_to_48k(xs, original_rate, target_rate) ==
  IF original_rate = target_rate
    THEN [out |-> xs, interpolated |-> FALSE]
    ELSE [out |-> Resample(xs, FDiv(FromInt(original_rate), FromInt(target_rate))),
          interpolated |-> TRUE]

----------------------------------------------------------------------------
(* extract_samples.py (the numpy variant)                                  *)

RECURSIVE ScanCrossingsNp(_, _, _)
ScanCrossingsNp(xs, i, crossings) ==
  IF i >= Len(xs) - 1 THEN crossings
  ELSE LET crossings2 == IF xs[i + 1] <= 0 /\ xs[i + 2] > 0
                           THEN Append(crossings, i) ELSE crossings
       IN IF Len(crossings2) >= MaxCrossings THEN crossings2
          ELSE ScanCrossingsNp(xs, i + 1, crossings2)

find_zero_crossings_np(xs, start_idx) ==
  ScanCrossingsNp(xs, start_idx, <<>>)

LoopParamsNp(start_ms, sample_rate, base_freq) ==
  [start_sample |-> MsToSamples(start_ms, sample_rate),
   expected_cycle_len |-> ExpectedCycleLen(sample_rate, base_freq)]

SelectCycleNp(xs, p) ==
  LET crossings == find_zero_crossings_np(xs, p.start_sample)
  IN IF Len(crossings) < 2
       THEN [crossings |-> crossings,
             cycle |-> Fallback(xs, p.start_sample, p.expected_cycle_len)]
       ELSE LET best_idx == BestIdx(crossings, p.expected_cycle_len, 0, 0, Inf)
                cycle_start == crossings[best_idx + 1]
                cycle_end == crossings[best_idx + 2]
            IN [crossings |-> crossings,
                cycle |-> PySlice(xs, cycle_start, cycle_end)]

find_best_loop_cycle_np(xs, start_ms, sample_rate, base_freq) ==
  SelectCycleNp(xs, LoopParamsNp(start_ms, sample_rate, base_freq)).cycle

----------------------------------------------------------------------------
(* Inputs                                                                  *)

\* Sample values. A sample s / 32768.0 is held as its numerator s: dividing
\* by a power of two is exact and keeps sign and order, which is all the
\* crossing test and the slices look at.
Samp == {-1, 0, 1}

Buffers(n) == UNION {[1..k -> Samp] : k \in 0..n}

MainIdle ==
  /\ wav = None /\ rate = None /\ attack = None /\ loop_cycle = None
  /\ attack_48k = None /\ loop_48k = None
  /\ output_file = NotWritten
  /\ error = NoError

----------------------------------------------------------------------------
(* find_zero_crossings applied to arbitrary arguments                      *)

MaxCrossLen == 6

MaxCount == 3

MaxStartIdx == 2

MaxDistance == 3

InitCross ==
  /\ pc = "call"
  /\ samples \in Buffers(MaxCrossLen)
  /\ args \in [start_idx : 0..MaxStartIdx, count : 0..MaxCount,
               min_distance : 0..MaxDistance]
  /\ ret = None /\ ret_np = None
  /\ MainIdle

CallFindZeroCrossings ==
  /\ pc = "call"
  /\ ret' = find_zero_crossings(samples, args.start_idx, args.count,
                                args.min_distance)
  /\ pc' = "returned"
  /\ UNCHANGED <<samples, args, ret_np, mainVars>>

NextCross == CallFindZeroCrossings

SpecCross == InitCross /\ [][NextCross]_vars

----------------------------------------------------------------------------------------------------------------------------------------
(* find_best_loop_cycle, both variants, applied to the same arguments      *)

MaxLoopLen == 8

MaxStartMs == 2

LoopRates == {1000, 1200, 2000}

\* 440.0
A4 == FromInt(440)

BaseFreqs == {C4, A4}

InitLoop ==
  /\ pc = "call"
  /\ samples = <<>>
  /\ args \in [start_ms : 0..MaxStartMs, sample_rate : LoopRates,
               base_freq : BaseFreqs]
  /\ ret = None /\ ret_np = None
  /\ MainIdle

\* Both scripts' find_best_loop_cycle on one buffer and the same arguments.
CallFindBestLoopCycle ==
  /\ pc = "call"
  /\ \E p \in {LoopParams(args.start_ms, args.sample_rate, args.base_freq)},
        q \in {LoopParamsNp(args.start_ms, args.sample_rate, args.base_freq)},
        xs \in Buffers(MaxLoopLen) :
          /\ samples' = xs
          /\ ret' = [params |-> p] @@ SelectCycle(xs, p)
          /\ ret_np' = [params |-> q] @@ SelectCycleNp(xs, q)
  /\ pc' = "returned"
  /\ UNCHANGED <<args, mainVars>>

NextLoop == CallFindBestLoopCycle

SpecLoop == InitLoop /\ [][NextLoop]_vars

----------------
(* The attack slice of extract_attack_and_loop                             *)

MaxAttackLen == 4

MaxAttackMs == 5

AttackRates == {500, 1000, 44100}

InitAttack ==
  /\ pc = "call"
  /\ samples \in Buffers(MaxAttackLen)
  /\ args \in [attack_ms : 0..MaxAttackMs, rate : AttackRates]
  /\ ret = None /\ ret_np = None
  /\ MainIdle

CallExtractAttack ==
  /\ pc = "call"
  /\ ret' = ExtractAttack(samples, args.attack_ms, args.rate)
  /\ pc' = "returned"
  /\ UNCHANGED <<samples, args, ret_np, mainVars>>

NextAttack == CallExtractAttack

SpecAttack == InitAttack /\ [][NextAttack]_vars

----------------------------------------------------------------------------
(* downsample_to_48k applied to arbitrary rates                            *)

MaxResLen == 5

OrigRates == {2, 3, 5}

TargetRates == {2, 3, 29}

InitResample ==
  /\ pc = "call"
  /\ samples \in Buffers(MaxResLen)
  /\ args \in [original_rate : OrigRates, target_rate : TargetRates]
  /\ ret = None /\ ret_np = None
  /\ MainIdle

CallDownsample ==
  /\ pc = "call"
  /\ ret' = downsample_to_48k(samples, args.original_rate, args.target_rate)
  /\ pc' = "returned"
  /\ UNCHANGED <<samples, args, ret_np, mainVars>>

NextResample == CallDownsample

SpecResample == InitResample /\ [][NextResample]_vars

----------------------------------------------------------------------------
(* main(): one run of the pure-Python script over one WAV file             *)

AttackMs == 45

LoopStartMs == 200

TargetRate == 48000

SampleWidth16 == 2

\* A plausible slip: the data taken as 16-bit whatever the header says.
AnyWidth(width) == TRUE

\* if width == 2
Is16Bit(width) == width = SampleWidth16

\* raise ValueError(f"Unsupported sample width: {width}")
UnsupportedWidth(width) == <<"ValueError", "Unsupported sample width", width>>

\* max() of an empty sequence
EmptyMax == <<"ValueError", "max() arg is an empty sequence">>

\* generate_c_array: the array declaration with one entry per sample and the
\* length constant that follows it.
generate_c_array(xs, array_name) ==
  [name |-> array_name, values |-> xs, len |-> Len(xs)]

\* A square wave of n raw 16-bit values with the given half period.
Square(n, half, amp) ==
  [k \in 1..n |-> IF ((k - 1) \div half) % 2 = 0 THEN -amp ELSE amp]

MaxFrames == 16

WavRates == {24, 25}

WavFrames == {0, 2, 8, 12, MaxFrames}

\* The files: header fields and frames * channels interleaved raw values.
WavFiles ==
  {[channels |-> c, width |-> w, rate |-> r, frames |-> n,
    data |-> Square(n * c, h, a)] :
     c \in {1, 2}, w \in {1, SampleWidth16, 3}, r \in WavRates,
     n \in WavFrames, h \in {1, 2}, a \in {0, 1000}}

InitMain ==
  /\ pc = "main"
  /\ wav \in WavFiles
  /\ samples = None /\ args = None /\ ret = None /\ ret_np = None
  /\ rate = None /\ attack = None /\ loop_cycle = None
  /\ attack_48k = None /\ loop_48k = None
  /\ output_file = NotWritten
  /\ error = NoError

\* wave.open ... peak: read the header and the frames, reject any sample
\* width but 16 bits, keep the left channel, normalise, take the peak.
Decode ==
  /\ pc = "main"
  /\ IF ~Is16Bit(wav.width)
       THEN /\ error' = UnsupportedWidth(wav.width)
            /\ pc' = "raised"
            /\ UNCHANGED <<samples, rate>>
       ELSE LET mono == IF wav.channels = 2 THEN EveryOther(wav.data)
                                             ELSE wav.data
            IN /\ samples' = mono
               /\ rate' = wav.rate
               /\ IF mono = <<>>
                    THEN error' = EmptyMax /\ pc' = "raised"
                    ELSE error' = error /\ pc' = "decoded"
  /\ UNCHANGED <<args, ret, ret_np, wav, attack, loop_cycle, attack_48k,
                 loop_48k, output_file>>

\* attack = samples[:attack_samples_count]; attack_peak = max(...)
AttackStep ==
  /\ pc = "decoded"
  /\ attack' = ExtractAttack(samples, AttackMs, rate)
  /\ IF attack' = <<>>
       THEN error' = EmptyMax /\ pc' = "raised"
       ELSE error' = error /\ pc' = "attack"
  /\ UNCHANGED <<samples, args, ret, ret_np, wav, rate, loop_cycle,
                 attack_48k, loop_48k, output_file>>

\* loop_cycle = find_best_loop_cycle(...); loop_peak = max(...); return
LoopStep ==
  /\ pc = "attack"
  /\ loop_cycle' = find_best_loop_cycle(samples, LoopStartMs, rate, C4)
  /\ IF loop_cycle' = <<>>
       THEN error' = EmptyMax /\ pc' = "raised"
       ELSE error' = error /\ pc' = "extracted"
  /\ UNCHANGED <<samples, args, ret, ret_np, wav, rate, attack,
                 attack_48k, loop_48k, output_file>>

\* attack_48k = downsample_to_48k(attack, rate, 48000), and the loop alike
ResampleStep ==
  /\ pc = "extracted"
  /\ attack_48k' = downsample_to_48k(attack, rate, TargetRate).out
  /\ loop_48k' = downsample_to_48k(loop_cycle, rate, TargetRate).out
  /\ pc' = "resampled"
  /\ UNCHANGED <<samples, args, ret, ret_np, wav, rate, attack, loop_cycle,
                 output_file, error>>

\* generate the two arrays, open samples_data.h and write them
WriteStep ==
  /\ pc = "resampled"
  /\ output_file' =
       [opened |-> TRUE,
        text |-> <<generate_c_array(attack_48k, "k_attack_samples"),
                   generate_c_array(loop_48k, "k_loop_samples")>>]
  /\ pc' = "done"
  /\ UNCHANGED <<samples, args, ret, ret_np, wav, rate, attack, loop_cycle,
                 attack_48k, loop_48k, error>>

NextMain == Decode \/ AttackStep \/ LoopStep \/ ResampleStep \/ WriteStep

SpecMain == InitMain /\ [][NextMain]_vars

----------------------------------------------------------------------------
(* Properties of find_zero_crossings (SpecCross)                           *)

\* A rising zero crossing at offset i: samples[i] <= 0 and samples[i+1] > 0.
Rising(xs, i) == i + 2 <= Len(xs) /\ xs[i + 1] <= 0 /\ xs[i + 2] > 0

\* C2: consecutive crossings returned by find_zero_crossings lie at least
\* min_distance apart, and the crossings are in increasing order of position.
C2_CrossingSpacing ==
  pc = "returned" =>
    \A k \in 1..(Len(ret) - 1) :
      /\ ret[k + 1] - ret[k] >= args.min_distance
      /\ ret[k] < ret[k + 1]

\* C2 witness: a call with a minimum distance of at least 3 that returned two
\* crossings and passed over a rising crossing lying too close to the first.
C2_Witness ==
  /\ pc = "returned"
  /\ args.min_distance >= 3
  /\ Len(ret) >= 2
  /\ \E i \in (ret[1] + 1)..(ret[2] - 1) : Rising(samples, i)

\* C4: find_zero_crossings never returns more than count crossings, and it
\* returns fewer than count only when no acceptable crossing is left between
\* the last accepted one and the end of the buffer.
C4_MaxCount ==
  pc = "returned" =>
    /\ Len(ret) <= args.count
    /\ Len(ret) < args.count =>
         LET last == IF ret = <<>> THEN -args.min_distance ELSE ret[Len(ret)]
             from == IF ret = <<>> THEN args.start_idx ELSE last + 1
         IN \A i \in from..(Len(samples) - 2) :
              ~(Rising(samples, i) /\ i - last >= args.min_distance)

----------------------------------------------------------------------------
(* Properties of find_best_loop_cycle (SpecLoop)                           *)

\* abs((c[k+1] - c[k]) - expected) for the pair at offset k of crossings c
PairDiff(c, k, expected) == Abs((c[k + 2] - c[k + 1]) - expected)

\* The lowest offset among the pairs closest to the expected length.
LowestBest(c, expected) ==
  CHOOSE k \in 0..(Len(c) - 2) :
    /\ \A j \in 0..(Len(c) - 2) : PairDiff(c, k, expected) <= PairDiff(c, j, expected)
    /\ \A j \in 0..(k - 1) : PairDiff(c, j, expected) > PairDiff(c, k, expected)

\* C1: when at least two crossings were found, the returned cycle is the
\* slice between the adjacent crossing pair whose spacing is closest to the
\* expected cycle length, the first such pair from the left on a tie.
C1_ClosestPairFirstOnTie ==
  (pc = "returned" /\ Len(ret.crossings) >= 2) =>
    LET c == ret.crossings
        k == LowestBest(c, ret.params.expected_cycle_len)
    IN ret.cycle = PySlice(samples, c[k + 1], c[k + 2])

\* C1 witness: three or more crossings, and a later pair that ties with the
\* chosen one while having another spacing and delimiting a different slice.
C1_Witness ==
  /\ pc = "returned"
  /\ Len(ret.crossings) >= 3
  /\ LET c == ret.crossings
         e == ret.params.expected_cycle_len
         k == LowestBest(c, e)
     IN /\ ret.cycle = PySlice(samples, c[k + 1], c[k + 2])
        /\ \E j \in (k + 1)..(Len(c) - 2) :
             /\ PairDiff(c, j, e) = PairDiff(c, k, e)
             /\ c[j + 2] - c[j + 1] # c[k + 2] - c[k + 1]
             /\ PySlice(samples, c[j + 1], c[j + 2]) # ret.cycle

\* base_freq in hundredths of a hertz
CentiHz(base_freq) == IF base_freq = C4 THEN 26163 ELSE 44000

\* trunc(start_ms * rate / 1000) in exact arithmetic
ExactStartSample == (args.start_ms * args.sample_rate) \div MsPerSecond

\* trunc(rate / base_freq) in exact arithmetic
ExactCycleLen == (args.sample_rate * 100) \div CentiHz(args.base_freq)

\* C3: with fewer than two crossings the result is exactly the fixed-length
\* slice samples[start : start + target], start = trunc(start_ms*rate/1000),
\* target = trunc(rate/base_freq), cut short only by the end of the buffer.
C3_FallbackSlice ==
  (pc = "returned" /\ Len(ret.crossings) < 2) =>
    /\ ret.cycle = PySlice(samples, ExactStartSample,
                           ExactStartSample + ExactCycleLen)
    /\ Len(ret.cycle) =
         Min(ExactCycleLen,
             IF Len(samples) > ExactStartSample
               THEN Len(samples) - ExactStartSample ELSE 0)

\* C3 witness: a flat-zero buffer at least as long as the target cycle, a
\* non-zero start offset, and the whole fixed-length slice returned.
C3_Witness ==
  /\ pc = "returned"
  /\ ret.crossings = <<>>
  /\ \A k \in 1..Len(samples) : samples[k] = 0
  /\ ExactStartSample > 0
  /\ ExactCycleLen > 0
  /\ Len(ret.cycle) = ExactCycleLen

\* C9: the numpy script and the pure-Python script find the same crossings
\* and select the same loop cycle on the same arguments.
C9_SameSelection ==
  pc = "returned" =>
    /\ ret.crossings = ret_np.crossings
    /\ ret.cycle = ret_np.cycle

----------------------------------------------------------------------------
(* Properties of the attack slice (SpecAttack)                             *)

\* floor(attack_ms * rate / 1000) in exact arithmetic
ExactAttackCount == (args.attack_ms * args.rate) \div MsPerSecond

\* C7: the attack is the prefix of the buffer of length
\* min(len(samples), floor(attack_ms * rate / 1000)).
C7_AttackPrefix ==
  pc = "returned" =>
    /\ Len(ret) = Min(Len(samples), ExactAttackCount)
    /\ \A k \in 1..Len(ret) : ret[k] = samples[k]

\* C7 witness: a non-empty buffer shorter than the requested count, returned
\* whole.
C7_Witness ==
  /\ pc = "returned"
  /\ samples # <<>>
  /\ Len(samples) < ExactAttackCount
  /\ ret = samples

----------------------------------------------------------------------------
(* Properties of downsample_to_48k (SpecResample)                          *)

\* floor(len(samples) * target_rate / original_rate) in exact arithmetic
ExactNewLen == (Len(samples) * args.target_rate) \div args.original_rate

\* C5: with target_rate equal to original_rate the samples come back
\* unchanged, and the interpolation loop is not entered.
C5_ResampleIdentity ==
  (pc = "returned" /\ args.original_rate = args.target_rate) =>
    /\ ~ret.interpolated
    /\ ret.out = samples

\* C5 witness: a non-empty buffer resampled at its own rate.
C5_Witness ==
  /\ pc = "returned"
  /\ args.original_rate = args.target_rate
  /\ samples # <<>>
  /\ ret.out = samples

\* C6 as stated: for different rates the output length equals
\* floor(len(samples) * target_rate / original_rate).
C6_ExactLength ==
  (pc = "returned" /\ args.original_rate # args.target_rate) =>
    Len(ret.out) = ExactNewLen

\* C6 amended: for different rates the output length is
\* floor(len(samples) * target_rate / original_rate) or one less.
C6_LengthWithinOne ==
  (pc = "returned" /\ args.original_rate # args.target_rate) =>
    /\ Len(ret.out) <= ExactNewLen
    /\ Len(ret.out) >= ExactNewLen - 1

\* C6 witness: an upsampling whose output is one sample short of the exact
\* quotient, because len(samples) / ratio rounds below the integer.
C6_Witness ==
  /\ pc = "returned"
  /\ args.original_rate < args.target_rate
  /\ samples # <<>>
  /\ Len(ret.out) = ExactNewLen - 1

\* C10: in the interpolation loop every read index lies inside the buffer,
\* samples[idx+1] is read only when idx + 1 < len(samples), and the clamp
\* value samples[idx] is used only at the last index of the buffer.
C10_ReadsInBounds ==
  (pc = "returned" /\ args.original_rate # args.target_rate /\ samples # <<>>) =>
    \A i \in 1..Len(ret.out) :
      /\ 0 <= ret.out[i].idx
      /\ ret.out[i].idx <= Len(samples) - 1
      /\ ret.out[i].kind = "interp" => ret.out[i].idx + 1 < Len(samples)
      /\ ret.out[i].kind = "clamp" => ret.out[i].idx = Len(samples) - 1

\* C10 witness: an upsampling whose last outputs are clamped to the final
\* sample while earlier ones interpolate.
C10_Witness ==
  /\ pc = "returned"
  /\ args.original_rate < args.target_rate
  /\ Len(samples) >= 2
  /\ Len(ret.out) >= 2
  /\ ret.out[1].kind = "interp"
  /\ ret.out[Len(ret.out)].kind = "clamp"
  /\ ret.out[Len(ret.out)].idx = Len(samples) - 1

----------------------------------------------------------------------------
(* Properties of main() (SpecMain)                                         *)

\* C8: a sample width other than 16 bits ends the run with the
\* unsupported-width error naming the width and no output file; the output
\* file is opened only once decoding, attack extraction, loop selection and
\* resampling have all succeeded, and never in a run that raised.
C8_NoOutputOnFailure ==
  /\ (wav.width # SampleWidth16 /\ pc # "main") =>
       /\ pc = "raised"
       /\ error = UnsupportedWidth(wav.width)
       /\ ~output_file.opened
  /\ pc = "raised" => (error # NoError /\ ~output_file.opened)
  /\ output_file.opened =>
       /\ pc = "done"
       /\ error = NoError
       /\ wav.width = SampleWidth16
       /\ samples # <<>>
       /\ attack # <<>> /\ attack = ExtractAttack(samples, AttackMs, rate)
       /\ loop_cycle # <<>>
       /\ attack_48k = downsample_to_48k(attack, rate, TargetRate).out
       /\ loop_48k = downsample_to_48k(loop_cycle, rate, TargetRate).out
       /\ output_file.text[1].values = attack_48k
       /\ output_file.text[2].values = loop_48k

\* C8 witness: a non-empty 8-bit or 24-bit file, rejected with the error
\* naming its width.
C8_Witness ==
  /\ pc = "raised"
  /\ wav.width # SampleWidth16
  /\ wav.frames > 0
  /\ error = UnsupportedWidth(wav.width)
  /\ ~output_file.opened

====
